---- MODULE Spec2Model ----
(***************************************************************************)
(* Equipment checkout: the data store (tables eq_equipment, eq_checkouts,  *)
(* eq_deficiencies with their row-level-security policies and triggers,    *)
(* DATABASE_SETUP.md) and the browser clients (App.jsx) that read cached   *)
(* copies of the tables and write through the handlers; the Admin tab's     *)
(* equipment codes; and the helper functions getOverdueCheckouts,          *)
(* getMaintenanceDue and exportToCSV, each evaluated on its own.           *)
(***************************************************************************)
EXTENDS Integers, Sequences, FiniteSets, TLC

\* ------------------------------------------------------------------ bounds
MaxCheckouts == 2       \* rows the eq_checkouts table may hold
MaxDeficiencies == 1    \* rows the eq_deficiencies table may hold
MaxEquipment == 8       \* equipment codes the eq_equipment table may hold
MaxRows == 3            \* length of the lists handed to the helper functions
TicksPerDay == 2        \* instants told apart within one day (0 = local midnight)
MaxItems == 3           \* length of the equipment lists handed to getMaintenanceDue
MaxRecords == 2         \* records handed to exportToCSV
MaxEquipmentRecords == 2 \* equipment rows handed to exportEquipmentList
MaxMaintained == 2      \* eq_equipment rows while maintenance dates are updated
MaxSeconds == 6         \* seconds the notification banner is followed for
MaxTimers == 2          \* showNotification timeouts that may be pending at once
MaxPending == 2         \* pending deficiencies reported on one equipment before a resolve

\* --------------------------------------------------------------- constants
Equip == {"e1"}
Clients == {"c1", "c2"}
Users == {"vol", "chair"}
NoUser == "none"
NoEquip == "none"
NULL == 0               \* SQL NULL of return_date / checkout_id / resolved_date
NotificationSeconds == 4 \* setTimeout(..., 4000): the delay in seconds
NOW == 1                \* a timestamp or date that is set: new Date().toISOString();
                        \* the triggers and the handlers read it as null or not null

\* public.users: role of each profile row
Role(u) == IF u = "chair" THEN "chair" ELSE "volunteer"

\* the person at each browser and the credentials that person can type
Person(c) == IF c = "c1" THEN "vol" ELSE "chair"

Statuses == {"available", "checked-out", "needs-repair", "out-of-service"}

VARIABLES
  eq_equipment,       \* [Equip -> status]                     (table, status column)
  eq_checkouts,       \* Seq of checkout rows, id = index      (table)
  eq_deficiencies,    \* Seq of deficiency rows, id = index    (table)
  user,               \* [Clients -> profile id or NoUser]     useState user
  auth,               \* [Clients -> auth.uid() or NoUser]     supabase auth session
  equipment,          \* [Clients -> [Equip -> status or "absent"]]   useState equipment
  checkouts,          \* [Clients -> Seq of cached checkout rows]     useState checkouts
  deficiencies,       \* [Clients -> Seq of cached deficiency rows]   useState deficiencies
  shown,              \* the showNotification call of the last step, if it made one
  ret,                \* [Clients -> handleReturn suspended at its second await]
  eq_codes,           \* equipment_code column of eq_equipment (UNIQUE): set of texts
  eq_maintenance,     \* eq_equipment rows by id: [category, last_maintenance, status]
  notification,       \* useState notification: what the banner shows, or Hidden
  timers,             \* pending setTimeout callbacks of showNotification: due times
  arg,                \* argument list of the helper function being evaluated
  clock,              \* Date.now() during that evaluation
  result,             \* what the helper function returned
  fn                  \* the helper function that returned it ("none" before any call)

vars == <<eq_equipment, eq_checkouts, eq_deficiencies, user, auth,
          equipment, checkouts, deficiencies, shown, ret,
          eq_codes, eq_maintenance, notification, timers, arg, clock, result, fn>>

store == <<eq_equipment, eq_checkouts, eq_deficiencies>>
session == <<user, auth>>
cache == <<equipment, checkouts, deficiencies>>
helper == <<arg, clock, result, fn>>
toast == <<notification, timers>>

\* ------------------------------------------------------------- data store
NoNotification == [client |-> "none", message |-> "none", type |-> "none"]
\* useState(null) of notification; shownAt is the time of the showNotification call
Hidden == [message |-> "none", type |-> "none", shownAt |-> 0]
NoReturn == [active |-> FALSE, equipment_id |-> NoEquip, checkout_id |-> NULL,
             user_id |-> NoUser, severity |-> "minor"]
EmptyList == [e \in Equip |-> "absent"]

IsAdminRole(u) == u # NoUser /\ Role(u) \in {"admin", "chair"}

\* rows with return_date IS NULL
OpenCheckouts(rows, e) ==
  {i \in DOMAIN rows : rows[i].equipment_id = e /\ rows[i].return_date = NULL}

\* rows with severity = 'major' AND status = 'pending'
PendingMajor(rows, e) ==
  {i \in DOMAIN rows : rows[i].equipment_id = e /\ rows[i].severity = "major"
                       /\ rows[i].status = "pending"}

\* trigger on_equipment_checkout: AFTER INSERT ON eq_checkouts
update_equipment_status_on_checkout(eqt, new) ==
  [eqt EXCEPT ![new.equipment_id] = "checked-out"]

\* a return trigger that leaves the status alone (C8 and C25 tell the two apart)
update_equipment_status_on_return_keeps_status(eqt, old, new) == eqt

\* trigger on_equipment_return: AFTER UPDATE ON eq_checkouts
update_equipment_status_on_return(eqt, old, new) ==
  IF new.return_date # NULL /\ old.return_date = NULL
    THEN [eqt EXCEPT ![new.equipment_id] = "available"]
    ELSE eqt

\* an insert trigger that does not look at the severity (C24 tells the two apart)
update_equipment_on_deficiency_insert_any_severity(eqt, new) ==
  [eqt EXCEPT ![new.equipment_id] = "needs-repair"]

\* trigger on_deficiency_change, TG_OP = 'INSERT'
update_equipment_on_deficiency_insert(eqt, new) ==
  IF new.severity = "major"
    THEN [eqt EXCEPT ![new.equipment_id] = "needs-repair"]
    ELSE eqt

\* a resolve trigger that never looks for an open checkout (C7 tells the two apart)
update_equipment_on_deficiency_update_ignores_checkout(eqt, defs, chk, id, old, new) ==
  IF new.status = "resolved" /\ old.status = "pending"
    THEN [eqt EXCEPT ![new.equipment_id] = "available"]
    ELSE eqt

\* a resolve trigger that never looks for other pending major deficiencies
\* (C23 tells the two apart)
update_equipment_on_deficiency_update_ignores_others(eqt, defs, chk, id, old, new) ==
  IF new.status = "resolved" /\ old.status = "pending"
    THEN IF \E k \in DOMAIN chk : /\ chk[k].equipment_id = new.equipment_id
                                  /\ chk[k].return_date = NULL
           THEN [eqt EXCEPT ![new.equipment_id] = "checked-out"]
           ELSE [eqt EXCEPT ![new.equipment_id] = "available"]
    ELSE eqt

\* trigger on_deficiency_change, TG_OP = 'UPDATE'; defs and chk are the tables
\* after the row update, id the updated row
update_equipment_on_deficiency_update(eqt, defs, chk, id, old, new) ==
  IF new.status = "resolved" /\ old.status = "pending"
    THEN IF ~ \E j \in DOMAIN defs : /\ defs[j].equipment_id = new.equipment_id
                                     /\ j # id
                                     /\ defs[j].severity = "major"
                                     /\ defs[j].status = "pending"
           THEN IF \E k \in DOMAIN chk : /\ chk[k].equipment_id = new.equipment_id
                                         /\ chk[k].return_date = NULL
                  THEN [eqt EXCEPT ![new.equipment_id] = "checked-out"]
                  ELSE [eqt EXCEPT ![new.equipment_id] = "available"]
           ELSE eqt
    ELSE eqt

\* RLS "Users can create checkouts": TO authenticated WITH CHECK (auth.uid() = user_id)
CheckoutInsertAllowed(uid, row) == uid # NoUser /\ uid = row.user_id

\* RLS "Users can update own checkouts or admin/chair can update any"
CheckoutUpdateAllowed(uid, row) == uid # NoUser /\ (uid = row.user_id \/ IsAdminRole(uid))

\* RLS "Users can report deficiencies": TO authenticated WITH CHECK (auth.uid() = reported_by)
DeficiencyInsertAllowed(uid, row) == uid # NoUser /\ uid = row.reported_by

\* RLS "Deficiencies updatable by admin/chair"
DeficiencyUpdateAllowed(uid) == uid # NoUser /\ IsAdminRole(uid)

\* RLS "... viewable by authenticated": TO authenticated USING (true)
SelectAllowed(uid) == uid # NoUser

\* ------------------------------------------------------------------- Init
Init ==
  /\ eq_equipment = [e \in Equip |-> "available"]
  /\ eq_checkouts = <<>>
  /\ eq_deficiencies = <<>>
  /\ user = [c \in Clients |-> NoUser]
  /\ auth = [c \in Clients |-> NoUser]
  /\ equipment = [c \in Clients |-> EmptyList]
  /\ checkouts = [c \in Clients |-> <<>>]
  /\ deficiencies = [c \in Clients |-> <<>>]
  /\ shown = NoNotification
  /\ ret = [c \in Clients |-> NoReturn]
  /\ eq_codes = {<<"E", "Q", "0", "0", "1">>}
  /\ eq_maintenance = <<>>
  /\ notification = Hidden
  /\ timers = <<>>
  /\ arg = <<>>
  /\ clock = 0
  /\ result = <<>>
  /\ fn = "none"

\* --------------------------------------------------------------- sessions
\* showNotification(message, type)
Notify(c, m, t) == [client |-> c, message |-> m, type |-> t]

\* handleMemberLogin: the profile row with the typed member number becomes the
\* user; the supabase auth session is not touched.
handleMemberLogin(c) ==
  /\ user[c] = NoUser
  /\ user' = [user EXCEPT ![c] = Person(c)]
  /\ shown' = NoNotification
  /\ UNCHANGED <<store, auth, cache, ret, eq_codes, eq_maintenance, toast, helper>>

\* handleChairLogin: signInWithPassword opens the auth session first; a profile
\* that is neither admin nor chair throws after that, leaving user null.
handleChairLogin(c) ==
  /\ user[c] = NoUser
  /\ auth' = [auth EXCEPT ![c] = Person(c)]
  /\ IF Role(Person(c)) # "admin" /\ Role(Person(c)) # "chair"
       THEN UNCHANGED user
       ELSE user' = [user EXCEPT ![c] = Person(c)]
  /\ shown' = NoNotification
  /\ UNCHANGED <<store, cache, ret, eq_codes, eq_maintenance, toast, helper>>

\* handleLogout: signOut and setUser(null); the cached lists stay.
handleLogout(c) ==
  /\ user[c] # NoUser
  /\ auth' = [auth EXCEPT ![c] = NoUser]
  /\ user' = [user EXCEPT ![c] = NoUser]
  /\ shown' = NoNotification
  /\ UNCHANGED <<store, cache, ret, eq_codes, eq_maintenance, toast, helper>>

\* ---------------------------------------------------------------- fetches
\* The cached rows keep the columns the handlers read (id = index,
\* equipment_id, return_date as null or not; status).
CachedCheckouts(rows) ==
  [i \in DOMAIN rows |-> [equipment_id |-> rows[i].equipment_id,
                          return_date |-> rows[i].return_date]]

CachedDeficiencies(rows) == [i \in DOMAIN rows |-> [status |-> rows[i].status]]

\* fetchAllData: the three selects under the SELECT policies, setX(data || []),
\* taken at one instant. It is called without await at the end of the logins and
\* of the handlers, so its result arrives on its own, at any later time.
fetchAllData(c) ==
  /\ user[c] # NoUser
  /\ equipment' = [equipment EXCEPT ![c] =
                     IF SelectAllowed(auth[c]) THEN eq_equipment ELSE EmptyList]
  /\ checkouts' = [checkouts EXCEPT ![c] =
                     IF SelectAllowed(auth[c]) THEN CachedCheckouts(eq_checkouts) ELSE <<>>]
  /\ deficiencies' = [deficiencies EXCEPT ![c] =
                        IF SelectAllowed(auth[c]) THEN CachedDeficiencies(eq_deficiencies)
                                                  ELSE <<>>]
  /\ shown' = NoNotification
  /\ UNCHANGED <<store, session, ret, eq_codes, eq_maintenance, toast, helper>>

\* --------------------------------------------------------------- handlers
\* In every handler e is selectedEquipment.id: selectedEquipment is the row of the
\* cached equipment list that the user clicked (setSelectedEquipment(eq)), so
\* selectedEquipment.status is equipment[c][e].

\* the row handleCheckout inserts; return_date and return_condition default to NULL
NewCheckout(c, e) ==
  [equipment_id |-> e, user_id |-> user[c], return_date |-> NULL,
   return_condition |-> "null"]

\* handleCheckout: guarded by the status of the selection; the insert is checked
\* by the INSERT policy alone and fires on_equipment_checkout.
handleCheckout(c, e) ==
  /\ user[c] # NoUser
  /\ equipment[c][e] = "available"
  /\ IF CheckoutInsertAllowed(auth[c], NewCheckout(c, e))
       THEN /\ Len(eq_checkouts) < MaxCheckouts
            /\ eq_checkouts' = Append(eq_checkouts, NewCheckout(c, e))
            /\ eq_equipment' = update_equipment_status_on_checkout(eq_equipment,
                                                                   NewCheckout(c, e))
            /\ shown' = Notify(c, "checked out successfully", "success")
       ELSE /\ shown' = Notify(c, "Error checking out equipment", "error")
            /\ UNCHANGED <<eq_checkouts, eq_equipment>>
  /\ UNCHANGED <<eq_deficiencies, session, cache, ret, eq_codes,
                 eq_maintenance, toast, helper>>

\* checkouts.find(c => c.equipment_id === selectedEquipment.id && !c.return_date)
\* on the cached list, which is ordered by checkout_date descending: the latest
\* inserted matching row (NULL when there is none)
activeCheckout(c, e) ==
  LET m == OpenCheckouts(checkouts[c], e)
  IN IF m = {} THEN NULL ELSE CHOOSE i \in m : \A j \in m : j <= i

\* what the return form can hold when Return is clicked
ReturnForms ==
  {[condition |-> "good", deficiencyDesc |-> FALSE, severity |-> "minor"],
   [condition |-> "deficiency", deficiencyDesc |-> FALSE, severity |-> "minor"],
   [condition |-> "deficiency", deficiencyDesc |-> TRUE, severity |-> "minor"],
   [condition |-> "deficiency", deficiencyDesc |-> TRUE, severity |-> "major"]}

\* returnForm.condition === 'deficiency' && returnForm.deficiencyDesc
ReportsDeficiency(form) == form.condition = "deficiency" /\ form.deficiencyDesc

\* update({return_date, return_condition}).eq('id', id)
ReturnedRow(row, form) ==
  [row EXCEPT !.return_date = NOW,
              !.return_condition = IF form.condition = "good" THEN "good" ELSE "deficiency"]

\* handleReturn up to its second await (to its end when no deficiency is to be
\* inserted): the Return button is rendered for a selection with status
\* checked-out; the update is sent for the cached active checkout, the UPDATE
\* policy silently filters a row the caller may not update, and the result is
\* not inspected.
handleReturn(c, e, form) ==
  /\ user[c] # NoUser
  /\ equipment[c][e] = "checked-out"
  /\ activeCheckout(c, e) # NULL
  /\ ~ ret[c].active
  /\ LET id == activeCheckout(c, e)
         old == eq_checkouts[id]
         new == ReturnedRow(old, form)
     IN IF CheckoutUpdateAllowed(auth[c], old)
          THEN /\ eq_checkouts' = [eq_checkouts EXCEPT ![id] = new]
               /\ eq_equipment' = update_equipment_status_on_return(eq_equipment, old, new)
          ELSE UNCHANGED <<eq_checkouts, eq_equipment>>
  /\ IF ReportsDeficiency(form)
       THEN /\ ret' = [ret EXCEPT ![c] =
                         [active |-> TRUE, equipment_id |-> e,
                          checkout_id |-> activeCheckout(c, e), user_id |-> user[c],
                          severity |-> form.severity]]
            /\ shown' = NoNotification
       ELSE /\ shown' = Notify(c, "returned successfully", "success")
            /\ UNCHANGED ret
  /\ UNCHANGED <<eq_deficiencies, session, cache, eq_codes, eq_maintenance,
                 toast, helper>>

\* the row handleReturn inserts into eq_deficiencies
NewDeficiency(r) ==
  [equipment_id |-> r.equipment_id, checkout_id |-> r.checkout_id,
   reported_by |-> r.user_id, severity |-> r.severity, status |-> "pending",
   resolved_by |-> NoUser, resolved_date |-> NULL]

\* handleReturn from its second await: the deficiency insert, checked by the
\* INSERT policy and firing on_deficiency_change; its result is not inspected.
handleReturnResume(c) ==
  /\ ret[c].active
  /\ IF DeficiencyInsertAllowed(auth[c], NewDeficiency(ret[c]))
       THEN /\ Len(eq_deficiencies) < MaxDeficiencies
            /\ eq_deficiencies' = Append(eq_deficiencies, NewDeficiency(ret[c]))
            /\ eq_equipment' = update_equipment_on_deficiency_insert(
                                  eq_equipment, NewDeficiency(ret[c]))
       ELSE UNCHANGED <<eq_deficiencies, eq_equipment>>
  /\ shown' = Notify(c, "returned with deficiency reported", "warning")
  /\ ret' = [ret EXCEPT ![c] = NoReturn]
  /\ UNCHANGED <<eq_checkouts, session, cache, eq_codes, eq_maintenance, toast, helper>>

\* update({status: 'resolved', resolved_by, resolved_date, ...}).eq('id', defId)
ResolvedRow(row, uid) ==
  [row EXCEPT !.status = "resolved", !.resolved_by = uid, !.resolved_date = NOW]

\* const isAdmin = user.role === 'admin' || user.role === 'chair': the Alerts and
\* Admin tabs, Mark Resolved, Add Equipment and the Export CSV buttons are
\* rendered when it is true
isAdmin(c) == IsAdminRole(user[c])

\* resolveDeficiency: Mark Resolved is rendered for isAdmin on the cached
\* pending deficiencies; the UPDATE policy silently filters the row for other
\* callers, and the result is not inspected.
resolveDeficiency(c, d) ==
  /\ user[c] # NoUser
  /\ IsAdminRole(user[c])
  /\ d \in DOMAIN deficiencies[c]
  /\ deficiencies[c][d].status = "pending"
  /\ LET old == eq_deficiencies[d]
         new == ResolvedRow(old, user[c])
         defs == [eq_deficiencies EXCEPT ![d] = new]
     IN IF DeficiencyUpdateAllowed(auth[c])
          THEN /\ eq_deficiencies' = defs
               /\ eq_equipment' = update_equipment_on_deficiency_update(
                                     eq_equipment, defs, eq_checkouts, d, old, new)
          ELSE UNCHANGED <<eq_deficiencies, eq_equipment>>
  /\ shown' = Notify(c, "Deficiency marked as resolved", "success")
  /\ UNCHANGED <<eq_checkouts, session, cache, ret, eq_codes, eq_maintenance,
                 toast, helper>>

\* an admin or chair sets status = 'out-of-service' on the row directly (UPDATE
\* policy on eq_equipment; the app has no handler for it)
SetOutOfService(e) ==
  /\ eq_equipment[e] # "out-of-service"
  /\ eq_equipment' = [eq_equipment EXCEPT ![e] = "out-of-service"]
  /\ shown' = NoNotification
  /\ UNCHANGED <<eq_checkouts, eq_deficiencies, session, cache, ret, eq_codes,
                 eq_maintenance, toast, helper>>

\* the logins, the refreshes and the handlers (sessions stay logged in)
NextAuto ==
  \/ \E c \in Clients : handleMemberLogin(c)
  \/ \E c \in Clients : handleChairLogin(c)
  \/ \E c \in Clients : fetchAllData(c)
  \/ \E c \in Clients, e \in Equip : handleCheckout(c, e)
  \/ \E c \in Clients, e \in Equip, form \in ReturnForms : handleReturn(c, e, form)
  \/ \E c \in Clients : handleReturnResume(c)
  \/ \E c \in Clients, d \in 1..MaxDeficiencies : resolveDeficiency(c, d)

Next ==
  \/ NextAuto
  \/ \E e \in Equip : SetOutOfService(e)

\* every operation, the manual override included
Spec == Init /\ [][Next]_vars

\* the automatic lifecycle: no equipment is ever set out-of-service by hand
SpecAuto == Init /\ [][NextAuto]_vars

\* -------------------------------------------------------------- inventory
\* Texts are sequences of one-character strings.
Digits == <<"0", "1", "2", "3", "4", "5", "6", "7", "8", "9">>

IsDigit(ch) == \E d \in DOMAIN Digits : Digits[d] = ch

DigitValue(ch) == (CHOOSE d \in DOMAIN Digits : Digits[d] = ch) - 1

\* equipment_code ~ '^EQ[0-9]+$'
MatchesEQDigits(t) ==
  /\ Len(t) >= 3
  /\ t[1] = "E" /\ t[2] = "Q"
  /\ \A i \in 3..Len(t) : IsDigit(t[i])

\* SUBSTRING(equipment_code FROM 3)
SubstringFrom3(t) == SubSeq(t, 3, Len(t))

\* CAST(... AS INTEGER) of a text of digits
RECURSIVE CastInteger(_)
CastInteger(t) ==
  IF t = <<>> THEN 0
  ELSE 10 * CastInteger(SubSeq(t, 1, Len(t) - 1)) + DigitValue(t[Len(t)])

\* next_num::TEXT
RECURSIVE IntegerText(_)
IntegerText(n) ==
  IF n < 10 THEN <<Digits[n + 1]>>
  ELSE IntegerText(n \div 10) \o <<Digits[(n % 10) + 1]>>

\* LPAD(t, n, fill): fills on the left up to length n, and truncates a longer
\* text to its first n characters
RECURSIVE LPAD(_, _, _)
LPAD(t, n, fill) ==
  IF Len(t) >= n THEN SubSeq(t, 1, n) ELSE LPAD(<<fill>> \o t, n, fill)

\* COALESCE(MAX(CAST(SUBSTRING(equipment_code FROM 3) AS INTEGER)), 0)
MaxSuffix(codes) ==
  LET nums == {CastInteger(SubstringFrom3(t)) : t \in {u \in codes : MatchesEQDigits(u)}}
  IN IF nums = {} THEN 0 ELSE CHOOSE m \in nums : \A k \in nums : k <= m

\* generate_equipment_code()
generate_equipment_code(codes) ==
  <<"E", "Q">> \o LPAD(IntegerText(MaxSuffix(codes) + 1), 3, "0")

\* RLS "Equipment insertable by admin/chair"
EquipmentInsertAllowed(uid) == uid # NoUser /\ IsAdminRole(uid)

\* handleAddEquipment: the Admin tab is rendered for isAdmin (the role of the
\* profile in user); the code comes from the generate_equipment_code rpc; the
\* insert is checked by the INSERT policy and by equipment_code UNIQUE, and its
\* result is not inspected. The rpc and the insert are taken at one instant.
handleAddEquipment(c) ==
  /\ user[c] # NoUser
  /\ IsAdminRole(user[c])
  /\ LET equipmentCode == generate_equipment_code(eq_codes)
     IN IF EquipmentInsertAllowed(auth[c]) /\ equipmentCode \notin eq_codes
          THEN /\ Cardinality(eq_codes) < MaxEquipment
               /\ eq_codes' = eq_codes \cup {equipmentCode}
          ELSE UNCHANGED eq_codes
  /\ shown' = Notify(c, "added to inventory", "success")
  /\ UNCHANGED <<store, session, cache, ret, eq_maintenance, toast, helper>>

\* equipment codes the table can hold before the app adds more
ExistingCodes ==
  {<<"E", "Q", "0", "0", "1">>, <<"E", "Q", "0", "0", "2">>, <<"E", "Q", "0", "1", "0">>,
   <<"E", "Q", "1", "0", "0">>, <<"E", "Q", "9", "9", "8">>, <<"E", "Q", "9", "9", "9">>,
   <<"T", "1">>}

InitInventory ==
  /\ eq_equipment = [e \in Equip |-> "available"]
  /\ eq_checkouts = <<>>
  /\ eq_deficiencies = <<>>
  /\ user = [c \in Clients |-> NoUser]
  /\ auth = [c \in Clients |-> NoUser]
  /\ equipment = [c \in Clients |-> EmptyList]
  /\ checkouts = [c \in Clients |-> <<>>]
  /\ deficiencies = [c \in Clients |-> <<>>]
  /\ shown = NoNotification
  /\ ret = [c \in Clients |-> NoReturn]
  /\ eq_codes \in SUBSET ExistingCodes
  /\ eq_maintenance = <<>>
  /\ notification = Hidden
  /\ timers = <<>>
  /\ arg = <<>>
  /\ clock = 0
  /\ result = <<>>
  /\ fn = "none"

NextInventory ==
  \/ \E c \in Clients : handleMemberLogin(c)
  \/ \E c \in Clients : handleChairLogin(c)
  \/ \E c \in Clients : handleAddEquipment(c)

\* the Admin tab: equipment is added to a table that already holds some codes
SpecInventory == InitInventory /\ [][NextInventory]_vars

\* -------------------------------------------------------- helper functions
\* A DATE column ('yyyy-MM-dd') is a day number >= 1 (NULL when null); an instant
\* is a number of ticks, TicksPerDay ticks to the local day.

\* the state of the app while a helper function is evaluated on its own
AppIdle ==
  /\ eq_equipment = [e \in Equip |-> "available"]
  /\ eq_checkouts = <<>>
  /\ eq_deficiencies = <<>>
  /\ user = [c \in Clients |-> NoUser]
  /\ auth = [c \in Clients |-> NoUser]
  /\ equipment = [c \in Clients |-> EmptyList]
  /\ checkouts = [c \in Clients |-> <<>>]
  /\ deficiencies = [c \in Clients |-> <<>>]
  /\ shown = NoNotification
  /\ ret = [c \in Clients |-> NoReturn]
  /\ eq_codes = {<<"E", "Q", "0", "0", "1">>}
  /\ eq_maintenance = <<>>
  /\ notification = Hidden
  /\ timers = <<>>

\* parseISO of a DATE text: local midnight of that day
parseISO(d) == d * TicksPerDay

\* startOfDay(t)
startOfDay(t) == t - (t % TicksPerDay)

\* isPast(t): t < Date.now()
isPast(t, nowTicks) == t < nowTicks

\* addDays(t, n)
addDays(t, n) == t + n * TicksPerDay

\* differenceInDays(a, b): full days from b to a, truncated toward zero
differenceInDays(a, b) ==
  IF a >= b THEN (a - b) \div TicksPerDay ELSE 0 - ((b - a) \div TicksPerDay)

\* {...row, [field]: v}
Spread(row, field, v) ==
  [f \in DOMAIN row \cup {field} |-> IF f = field THEN v ELSE row[f]]

\* Array.prototype.filter with the predicate of getOverdueCheckouts
RECURSIVE filterOverdue(_, _)
filterOverdue(rows, nowTicks) ==
  IF rows = <<>> THEN <<>>
  ELSE LET c == Head(rows)
           keep == IF c.return_date # NULL THEN FALSE
                   ELSE IF c.expected_return = NULL THEN FALSE
                   ELSE isPast(startOfDay(parseISO(c.expected_return)), nowTicks)
       IN (IF keep THEN <<c>> ELSE <<>>) \o filterOverdue(Tail(rows), nowTicks)

\* .map(c => ({...c, daysOverdue: differenceInDays(today, parseISO(c.expected_return))}))
mapOverdue(rows, today) ==
  [i \in DOMAIN rows |->
     Spread(rows[i], "daysOverdue",
            differenceInDays(today, parseISO(rows[i].expected_return)))]

\* a comparator that orders the other way round (C15 tells the two apart)
compareOverdue_ascending(a, b) == a.daysOverdue - b.daysOverdue

\* (a, b) => b.daysOverdue - a.daysOverdue
compareOverdue(a, b) == b.daysOverdue - a.daysOverdue

\* the place of x in a sorted list: after every element that does not compare
\* greater than x (Array.prototype.sort is stable)
RECURSIVE insertOverdue(_, _)
insertOverdue(sorted, x) ==
  IF sorted = <<>> THEN <<x>>
  ELSE IF compareOverdue(sorted[Len(sorted)], x) > 0
         THEN Append(insertOverdue(SubSeq(sorted, 1, Len(sorted) - 1), x),
                     sorted[Len(sorted)])
         ELSE Append(sorted, x)

\* a sort that puts equal elements in reverse order (C16 tells the two apart)
RECURSIVE sortOverdue_reversing_ties(_)
sortOverdue_reversing_ties(rows) ==
  IF rows = <<>> THEN <<>>
  ELSE insertOverdue(sortOverdue_reversing_ties(Tail(rows)), Head(rows))

\* .sort((a, b) => b.daysOverdue - a.daysOverdue)
RECURSIVE sortOverdue(_)
sortOverdue(rows) ==
  IF rows = <<>> THEN <<>>
  ELSE insertOverdue(sortOverdue(SubSeq(rows, 1, Len(rows) - 1)), rows[Len(rows)])

\* getOverdueCheckouts(checkouts) evaluated at instant nowTicks
getOverdueCheckouts(rows, nowTicks) ==
  LET today == startOfDay(nowTicks)
  IN sortOverdue(mapOverdue(filterOverdue(rows, nowTicks), today))

\* the instants of a call: midnight of day 5 and later that day
Clocks == {5 * TicksPerDay, 5 * TicksPerDay + 1}

\* the columns of a checkout row that getOverdueCheckouts reads
CheckoutRows == [return_date : {NULL, NOW}, expected_return : {NULL, 3, 4, 5, 6}]

\* a checkout list as fetchCheckouts delivers it; id is the place in the list
CheckoutList(l) ==
  [i \in DOMAIN l |-> [id |-> i, return_date |-> l[i].return_date,
                        expected_return |-> l[i].expected_return]]

InitOverdue ==
  /\ AppIdle
  /\ \E n \in 0..MaxRows : \E l \in [1..n -> CheckoutRows] : arg = CheckoutList(l)
  /\ clock \in Clocks
  /\ result = <<>>
  /\ fn = "none"

\* const overdueCheckouts = getOverdueCheckouts(checkouts)
callOverdueCheckouts ==
  /\ fn = "none"
  /\ result' = getOverdueCheckouts(arg, clock)
  /\ fn' = "getOverdueCheckouts"
  /\ UNCHANGED <<store, session, cache, shown, ret, eq_codes, eq_maintenance,
                 toast, arg, clock>>

NextOverdue == callOverdueCheckouts

\* getOverdueCheckouts on every checkout list and instant of the bounds
SpecOverdue == InitOverdue /\ [][NextOverdue]_vars

\* the interval table with Tools maintained as often as Grounds (C17 tells the
\* two apart)
MAINTENANCE_INTERVALS_tools_90 ==
  [Grounds |-> 90, Tools |-> 90, Cleaning |-> 90, Electrical |-> 365,
   Events |-> NULL, Shop |-> 180, Range |-> 90, Other |-> NULL]

\* intervals with Grounds due every 10 days (C30 tells the two apart)
MAINTENANCE_INTERVALS_grounds_10 ==
  [Grounds |-> 10, Tools |-> 180, Cleaning |-> 90, Electrical |-> 365,
   Events |-> NULL, Shop |-> 180, Range |-> 90, Other |-> NULL]

\* const MAINTENANCE_INTERVALS (null is NULL)
MAINTENANCE_INTERVALS ==
  [Grounds |-> 90, Tools |-> 180, Cleaning |-> 90, Electrical |-> 365,
   Events |-> NULL, Shop |-> 180, Range |-> 90, Other |-> NULL]

\* Array.prototype.filter with the predicate of getMaintenanceDue
RECURSIVE filterMaintenance(_, _, _)
filterMaintenance(rows, today, nowTicks) ==
  IF rows = <<>> THEN <<>>
  ELSE LET eq == Head(rows)
           interval == MAINTENANCE_INTERVALS[eq.category]
           keep == IF interval = NULL THEN FALSE
                   ELSE IF eq.last_maintenance = NULL THEN TRUE
                   ELSE LET lastMaint == parseISO(eq.last_maintenance)
                            nextDue == addDays(lastMaint, interval)
                        IN isPast(nextDue, nowTicks)
                           \/ differenceInDays(nextDue, today) <= 14
       IN (IF keep THEN <<eq>> ELSE <<>>)
          \o filterMaintenance(Tail(rows), today, nowTicks)

\* .map(eq => ({...eq, daysPastDue, nextDueDate, neverMaintained}))
mapMaintenance(rows, today) ==
  [i \in DOMAIN rows |->
     LET eq == rows[i]
         interval == MAINTENANCE_INTERVALS[eq.category]
         nextDue == IF eq.last_maintenance # NULL
                      THEN addDays(parseISO(eq.last_maintenance), interval) ELSE NULL
         daysPast == IF eq.last_maintenance # NULL
                       THEN differenceInDays(today, nextDue) ELSE NULL
     IN Spread(Spread(Spread(eq, "daysPastDue", daysPast), "nextDueDate", nextDue),
               "neverMaintained", eq.last_maintenance = NULL)]

\* x || 0
OrZero(x) == IF x = NULL THEN 0 ELSE x

\* a comparator that does not look at neverMaintained (C18 tells the two apart)
compareMaintenance_by_days_only(a, b) == OrZero(b.daysPastDue) - OrZero(a.daysPastDue)

\* the comparator of getMaintenanceDue
compareMaintenance(a, b) ==
  IF a.neverMaintained /\ ~ b.neverMaintained THEN 0 - 1
  ELSE IF ~ a.neverMaintained /\ b.neverMaintained THEN 1
  ELSE OrZero(b.daysPastDue) - OrZero(a.daysPastDue)

\* the place of x in a sorted list (stable, as insertOverdue)
RECURSIVE insertMaintenance(_, _)
insertMaintenance(sorted, x) ==
  IF sorted = <<>> THEN <<x>>
  ELSE IF compareMaintenance(sorted[Len(sorted)], x) > 0
         THEN Append(insertMaintenance(SubSeq(sorted, 1, Len(sorted) - 1), x),
                     sorted[Len(sorted)])
         ELSE Append(sorted, x)

\* .sort((a, b) => ...)
RECURSIVE sortMaintenance(_)
sortMaintenance(rows) ==
  IF rows = <<>> THEN <<>>
  ELSE insertMaintenance(sortMaintenance(SubSeq(rows, 1, Len(rows) - 1)),
                         rows[Len(rows)])

\* getMaintenanceDue(equipment) evaluated at instant nowTicks
getMaintenanceDue(rows, nowTicks) ==
  LET today == startOfDay(nowTicks)
  IN sortMaintenance(mapMaintenance(filterMaintenance(rows, today, nowTicks), today))

\* the instants of a call: midnight of day 400 and later that day
MaintenanceClocks == {400 * TicksPerDay, 400 * TicksPerDay + 1}

\* CATEGORIES without 'All'
Categories ==
  {"Grounds", "Tools", "Cleaning", "Electrical", "Events", "Shop", "Range", "Other"}

\* last_maintenance values: null, or a day that puts last + interval 14 or 15
\* days after day 400 and, for Grounds, also one day before day 400 and on it
LastMaintenance(category) ==
  IF MAINTENANCE_INTERVALS[category] = NULL THEN {NULL, 324}
  ELSE {NULL}
       \cup {400 + d - MAINTENANCE_INTERVALS[category] : d \in {14, 15}}
       \cup (IF category = "Grounds" THEN {400 - 1 - 90, 400 - 90} ELSE {})

\* the columns of an equipment row that getMaintenanceDue reads
EquipmentRows ==
  UNION {[category : {k}, last_maintenance : LastMaintenance(k)] : k \in Categories}

\* an equipment list as fetchEquipment delivers it; id is the place in the list
EquipmentList(l) ==
  [i \in DOMAIN l |-> [id |-> i, category |-> l[i].category,
                        last_maintenance |-> l[i].last_maintenance]]

InitMaintenance ==
  /\ AppIdle
  /\ \E n \in 0..MaxItems : \E l \in [1..n -> EquipmentRows] : arg = EquipmentList(l)
  /\ clock \in MaintenanceClocks
  /\ result = <<>>
  /\ fn = "none"

\* const maintenanceDue = getMaintenanceDue(equipment)
callMaintenanceDue ==
  /\ fn = "none"
  /\ result' = getMaintenanceDue(arg, clock)
  /\ fn' = "getMaintenanceDue"
  /\ UNCHANGED <<store, session, cache, shown, ret, eq_codes, eq_maintenance,
                 toast, arg, clock>>

NextMaintenance == callMaintenanceDue

\* getMaintenanceDue on every equipment list and instant of the bounds
SpecMaintenance == InitMaintenance /\ [][NextMaintenance]_vars

\* RLS "Equipment updatable by admin/chair"
EquipmentUpdateAllowed(uid) == uid # NoUser /\ IsAdminRole(uid)

\* new Date().toISOString().split('T')[0]: the UTC date of the instant, which
\* is the local day or, by the offset of the time zone, the day before or after
toISODate(nowTicks) ==
  {(nowTicks - (nowTicks % TicksPerDay)) \div TicksPerDay + d : d \in {0 - 1, 0, 1}}

\* eq_equipment rows before any Mark Maintained Today on day 400: never
\* maintained, maintenance overdue, due within 14 days, or not due
MaintainedRows ==
  [category : {"Grounds"}, last_maintenance : {NULL, 400 - 1 - 90, 400 + 14 - 90, 400 + 15 - 90},
   status : {"available", "needs-repair"}]
  \cup [category : {"Electrical"}, last_maintenance : {400 + 14 - 365},
        status : {"checked-out"}]
  \cup [category : {"Events"}, last_maintenance : {NULL}, status : {"available"}]

InitMaintained ==
  /\ eq_equipment = [e \in Equip |-> "available"]
  /\ eq_checkouts = <<>>
  /\ eq_deficiencies = <<>>
  /\ user = [c \in Clients |-> NoUser]
  /\ auth = [c \in Clients |-> NoUser]
  /\ equipment = [c \in Clients |-> EmptyList]
  /\ checkouts = [c \in Clients |-> <<>>]
  /\ deficiencies = [c \in Clients |-> <<>>]
  /\ shown = NoNotification
  /\ ret = [c \in Clients |-> NoReturn]
  /\ eq_codes = {<<"E", "Q", "0", "0", "1">>}
  /\ \E n \in 1..MaxMaintained : eq_maintenance \in [1..n -> MaintainedRows]
  /\ notification = Hidden
  /\ timers = <<>>
  /\ arg = <<>>
  /\ clock = 400 * TicksPerDay
  /\ result = <<>>
  /\ fn = "none"

\* fetchEquipment in the session of c: setEquipment(data || []) under the SELECT
\* policy, and the render that follows computes maintenanceDue from the list
fetchEquipment(c) ==
  /\ user[c] # NoUser
  /\ arg' = IF SelectAllowed(auth[c]) THEN EquipmentList(eq_maintenance) ELSE <<>>
  /\ result' = getMaintenanceDue(arg', clock)
  /\ fn' = "getMaintenanceDue"
  /\ shown' = NoNotification
  /\ UNCHANGED <<store, session, cache, ret, eq_codes, eq_maintenance, toast, clock>>

\* handleUpdateMaintenance(equipmentId): Mark Maintained Today is rendered in
\* the Alerts tab (isAdmin) for the items of maintenanceDue; the update sets
\* last_maintenance and updated_at, the UPDATE policy silently filters the row
\* for other callers, the result is not inspected, and fetchEquipment() is not
\* awaited.
handleUpdateMaintenance(c, equipmentId) ==
  /\ user[c] # NoUser
  /\ isAdmin(c)
  /\ \E k \in DOMAIN result : result[k].id = equipmentId
  /\ IF EquipmentUpdateAllowed(auth[c])
       THEN \E today \in toISODate(clock) :
              eq_maintenance' = [eq_maintenance EXCEPT ![equipmentId].last_maintenance = today]
       ELSE UNCHANGED eq_maintenance
  /\ shown' = Notify(c, "Maintenance date updated", "success")
  /\ UNCHANGED <<store, session, cache, ret, eq_codes, toast, helper>>

\* time passes within the day
laterThatDay ==
  /\ clock % TicksPerDay < TicksPerDay - 1
  /\ clock' = clock + 1
  /\ UNCHANGED <<store, session, cache, shown, ret, eq_codes, eq_maintenance, toast,
                 arg, result, fn>>

\* the session of the person who is chair: the logins, the refresh, Mark
\* Maintained Today
NextMaintained ==
  \/ \E c \in {k \in Clients : IsAdminRole(Person(k))} : handleMemberLogin(c)
  \/ \E c \in {k \in Clients : IsAdminRole(Person(k))} : handleChairLogin(c)
  \/ \E c \in {k \in Clients : IsAdminRole(Person(k))} : fetchEquipment(c)
  \/ \E c \in {k \in Clients : IsAdminRole(Person(k))}, id \in 1..MaxMaintained :
       handleUpdateMaintenance(c, id)
  \/ laterThatDay

\* Mark Maintained Today on the equipment lists of the bounds
SpecMaintained == InitMaintained /\ [][NextMaintained]_vars

\* the Status accessor of exportMaintenanceSchedule evaluated at instant nowTicks
maintenanceStatus(r, nowTicks) ==
  IF r.last_maintenance = NULL THEN "OVERDUE"
  ELSE LET next == addDays(parseISO(r.last_maintenance), MAINTENANCE_INTERVALS[r.category])
       IN IF isPast(next, nowTicks) THEN "OVERDUE"
          ELSE IF differenceInDays(next, nowTicks) <= 14 THEN "DUE SOON"
          ELSE "OK"

\* equipment.filter(eq => MAINTENANCE_INTERVALS[eq.category])
RECURSIVE allWithMaintenance(_)
allWithMaintenance(rows) ==
  IF rows = <<>> THEN <<>>
  ELSE (IF MAINTENANCE_INTERVALS[Head(rows).category] # NULL THEN <<Head(rows)>> ELSE <<>>)
       \o allWithMaintenance(Tail(rows))

\* exportMaintenanceSchedule: the records handed to exportToCSV, each with the
\* value of its Status column (exportToCSV turns the values into the csv text),
\* then the notification
exportMaintenanceSchedule ==
  /\ fn = "none"
  /\ result' = [i \in DOMAIN allWithMaintenance(arg) |->
                  [id |-> allWithMaintenance(arg)[i].id,
                   Status |-> maintenanceStatus(allWithMaintenance(arg)[i], clock)]]
  /\ fn' = "exportMaintenanceSchedule"
  /\ \E c \in {k \in Clients : IsAdminRole(Person(k))} :
       shown' = Notify(c, "Maintenance schedule exported", "success")
  /\ UNCHANGED <<store, session, cache, ret, eq_codes, eq_maintenance, toast, arg, clock>>

NextSchedule == exportMaintenanceSchedule

\* exportMaintenanceSchedule on every equipment list and instant of the bounds
SpecSchedule == InitMaintenance /\ [][NextSchedule]_vars

\* a value an accessor returns: null, undefined or a string (a text)
Null == [kind |-> "null", text |-> <<>>]
Undefined == [kind |-> "undefined", text |-> <<>>]
Str(t) == [kind |-> "string", text |-> t]

\* if (value === null || value === undefined) value = ''; value = String(value)
StringOf(v) == IF v.kind = "null" \/ v.kind = "undefined" THEN <<>> ELSE v.text

\* value.includes(ch)
includes(t, ch) == \E i \in DOMAIN t : t[i] = ch

\* a quoting test that overlooks newlines (C21 tells the two apart)
csvField_ignores_newline(v) ==
  LET value == IF v.kind = "null" \/ v.kind = "undefined" THEN <<>> ELSE v.text
  IN IF (\E i \in DOMAIN value : value[i] \in {",", "\""})
       THEN <<"\"">> \o [i \in 1..Len(value) |-> value[i]] \o <<"\"">>
       ELSE value

\* a replace that leaves the quotes single (C20 tells the two apart)
replaceQuotes_keeps_single(t) == t

\* value.replace(/"/g, '""')
RECURSIVE replaceQuotes(_)
replaceQuotes(t) ==
  IF t = <<>> THEN <<>>
  ELSE (IF Head(t) = "\"" THEN <<"\"", "\"">> ELSE <<Head(t)>>) \o replaceQuotes(Tail(t))

\* the text exportToCSV emits for one value
csvField(v) ==
  LET value == StringOf(v)
  IN IF includes(value, ",") \/ includes(value, "\"") \/ includes(value, "\n")
       THEN <<"\"">> \o replaceQuotes(value) \o <<"\"">>
       ELSE value

\* Array.prototype.join(sep) on texts
RECURSIVE join(_, _)
join(texts, sep) ==
  IF texts = <<>> THEN <<>>
  ELSE IF Len(texts) = 1 THEN texts[1]
  ELSE texts[1] \o <<sep>> \o join(Tail(texts), sep)

\* !value for the values an accessor reads: null, undefined and '' are falsy
Falsy(v) == v.kind # "string" \/ v.text = <<>>

\* c.accessor(row): r => r.<field>, or r => r.last_maintenance || 'Never'
access(accessor, r) ==
  IF accessor = "last_maintenance || 'Never'"
    THEN (IF Falsy(r.last_maintenance) THEN Str(<<"N", "e", "v", "e", "r">>)
          ELSE r.last_maintenance)
    ELSE r[accessor]

\* exportToCSV(data, filename, columns): the csv text put into the Blob
exportToCSV(data, columns) ==
  LET headers == join([i \in DOMAIN columns |-> columns[i].header], ",")
      rows == [r \in DOMAIN data |->
                 join([i \in DOMAIN columns |-> csvField(access(columns[i].accessor, data[r]))],
                      ",")]
  IN join(<<headers>> \o rows, "\n")

\* columns as the export functions pass them: { header, accessor: r => r.<field> }
Columns ==
  <<[header |-> <<"C", "o", "d", "e">>, accessor |-> "equipment_code"],
    [header |-> <<"N", "o", "t", "e", "s">>, accessor |-> "notes"]>>

\* values of the exported fields
FieldValues ==
  {Null, Undefined, Str(<<>>), Str(<<"a">>), Str(<<",">>), Str(<<"\"">>),
   Str(<<"\n">>), Str(<<"a", "\"", "b">>), Str(<<"\"", "\"">>)}

Records == [equipment_code : FieldValues, notes : FieldValues]

InitCSV ==
  /\ AppIdle
  /\ \E n \in 0..MaxRecords : arg \in [1..n -> Records]
  /\ clock = 0
  /\ result = <<>>
  /\ fn = "none"

\* an export button: exportToCSV(data, filename, columns)
callExportToCSV ==
  /\ fn = "none"
  /\ result' = exportToCSV(arg, Columns)
  /\ fn' = "exportToCSV"
  /\ UNCHANGED <<store, session, cache, shown, ret, eq_codes, eq_maintenance,
                 toast, arg, clock>>

NextCSV == callExportToCSV

\* exportToCSV on every record list of the bounds
SpecCSV == InitCSV /\ [][NextCSV]_vars

\* the columns exportEquipmentList passes
EquipmentColumns ==
  <<[header |-> <<"C", "o", "d", "e">>, accessor |-> "equipment_code"],
    [header |-> <<"N", "a", "m", "e">>, accessor |-> "name"],
    [header |-> <<"C", "a", "t", "e", "g", "o", "r", "y">>, accessor |-> "category"],
    [header |-> <<"L", "o", "c", "a", "t", "i", "o", "n">>, accessor |-> "location"],
    [header |-> <<"S", "t", "a", "t", "u", "s">>, accessor |-> "status"],
    [header |-> <<"L", "a", "s", "t", " ", "M", "a", "i", "n", "t", "e", "n", "a", "n", "c", "e">>,
     accessor |-> "last_maintenance || 'Never'"],
    [header |-> <<"N", "o", "t", "e", "s">>, accessor |-> "notes"]>>

\* eq_equipment rows as fetchEquipment caches them: code, category and status
\* are set, name is a non-null text, location, last_maintenance and notes may
\* be null
EquipmentRecords ==
  [equipment_code : {Str(<<"E", "Q", "0", "0", "1">>)},
   name : {Str(<<"a">>), Str(<<",">>), Str(<<"a", "\"", "b">>), Str(<<"\n">>)},
   category : {Str(<<"T", "o", "o", "l", "s">>)},
   location : {Null, Str(<<",", "\"">>)},
   status : {Str(<<"a", "v", "a", "i", "l", "a", "b", "l", "e">>)},
   last_maintenance : {Null, Str(<<"2", "0", "2", "5", "-", "0", "1", "-", "0", "2">>)},
   notes : {Null, Str(<<>>), Str(<<"\"", "\"">>), Str(<<"\n", ",">>)}]

InitEquipmentCSV ==
  /\ AppIdle
  /\ \E n \in 0..MaxEquipmentRecords : arg \in [1..n -> EquipmentRecords]
  /\ clock = 0
  /\ result = <<>>
  /\ fn = "none"

\* the Export CSV button of a session with isAdmin: exportToCSV on the
\* equipment list, then the notification
exportEquipmentList ==
  /\ fn = "none"
  /\ result' = exportToCSV(arg, EquipmentColumns)
  /\ fn' = "exportEquipmentList"
  /\ \E c \in {k \in Clients : IsAdminRole(Person(k))} :
       shown' = Notify(c, "Equipment list exported", "success")
  /\ UNCHANGED <<store, session, cache, ret, eq_codes, eq_maintenance, toast, arg, clock>>

NextEquipmentCSV == exportEquipmentList

\* exportEquipmentList on every equipment list of the bounds
SpecEquipmentCSV == InitEquipmentCSV /\ [][NextEquipmentCSV]_vars

\* eq_deficiencies after one to MaxPending deficiency reports on e1, all
\* pending: the rows handleReturn inserts for returns of checkout 1 (a second
\* report comes from a client whose cached list still shows the checkout open)
ReportedDeficiencies ==
  UNION {[1..n -> {NewDeficiency([equipment_id |-> "e1", checkout_id |-> 1,
                                  user_id |-> "chair", severity |-> sv])
                   : sv \in {"minor", "major"}}]
         : n \in 1..MaxPending}

\* the store after those reports: checkout 1 returned with a deficiency, then
\* possibly checked out again from a cached list that showed it available; the
\* status as the triggers left it, or set out-of-service by an admin
InitRepair ==
  /\ eq_deficiencies \in ReportedDeficiencies
  /\ \E again \in BOOLEAN :
       LET returned == [equipment_id |-> "e1", user_id |-> "chair", return_date |-> NOW,
                        return_condition |-> "deficiency"]
           open == [equipment_id |-> "e1", user_id |-> "chair", return_date |-> NULL,
                    return_condition |-> "null"]
       IN /\ eq_checkouts = IF again THEN <<returned, open>> ELSE <<returned>>
          /\ \E s \in {"out-of-service",
                        IF again THEN "checked-out"
                        ELSE IF PendingMajor(eq_deficiencies, "e1") # {} THEN "needs-repair"
                        ELSE "available"} :
               eq_equipment = [e \in Equip |-> s]
  /\ user = [c \in Clients |-> NoUser]
  /\ auth = [c \in Clients |-> NoUser]
  /\ equipment = [c \in Clients |-> EmptyList]
  /\ checkouts = [c \in Clients |-> <<>>]
  /\ deficiencies = [c \in Clients |-> <<>>]
  /\ shown = NoNotification
  /\ ret = [c \in Clients |-> NoReturn]
  /\ eq_codes = {<<"E", "Q", "0", "0", "1">>}
  /\ eq_maintenance = <<>>
  /\ notification = Hidden
  /\ timers = <<>>
  /\ arg = <<>>
  /\ clock = 0
  /\ result = <<>>
  /\ fn = "none"

\* the logins, the refreshes and Mark Resolved
NextRepair ==
  \/ \E c \in Clients : handleMemberLogin(c)
  \/ \E c \in Clients : handleChairLogin(c)
  \/ \E c \in Clients : fetchAllData(c)
  \/ \E c \in Clients, d \in 1..MaxPending : resolveDeficiency(c, d)

\* resolving deficiencies of an equipment that has several
SpecRepair == InitRepair /\ [][NextRepair]_vars

\* the (message, type) pairs the handlers pass to showNotification
Notifications ==
  {[message |-> "checked out successfully", type |-> "success"],
   [message |-> "returned with deficiency reported", type |-> "warning"],
   [message |-> "Error adding equipment", type |-> "error"]}

\* showNotification(message, type): setNotification({ message, type }) and
\* setTimeout(() => setNotification(null), 4000); no earlier timeout is cleared
showNotification(n) ==
  /\ Len(timers) < MaxTimers
  /\ notification' = [message |-> n.message, type |-> n.type, shownAt |-> clock]
  /\ timers' = Append(timers, clock + NotificationSeconds)
  /\ UNCHANGED <<store, session, cache, shown, ret, eq_codes, eq_maintenance, helper>>

\* the callback of the oldest pending timeout runs once it is due:
\* () => setNotification(null)
timeout ==
  /\ timers # <<>>
  /\ Head(timers) <= clock
  /\ notification' = Hidden
  /\ timers' = Tail(timers)
  /\ UNCHANGED <<store, session, cache, shown, ret, eq_codes, eq_maintenance, helper>>

\* a second passes; a timeout that is due runs before time moves on
second ==
  /\ clock < MaxSeconds
  /\ IF timers = <<>> THEN TRUE ELSE Head(timers) > clock
  /\ clock' = clock + 1
  /\ UNCHANGED <<store, session, cache, shown, ret, eq_codes, eq_maintenance, toast,
                 arg, result, fn>>

NextNotification ==
  \/ \E n \in Notifications : showNotification(n)
  \/ timeout
  \/ second

\* the notification banner of one session over time
SpecNotification == Init /\ [][NextNotification]_vars

\* ------------------------------------------------------------------ claims
\* C1: with no manual override, the status of every equipment is needs-repair if
\* it has a pending major deficiency, else checked-out if it has an open
\* checkout, else available.
C1_StatusIsRecompute ==
  \A e \in Equip :
    eq_equipment[e] = IF PendingMajor(eq_deficiencies, e) # {} THEN "needs-repair"
                      ELSE IF OpenCheckouts(eq_checkouts, e) # {} THEN "checked-out"
                      ELSE "available"

\* C2: every equipment has at most one checkout row with a null return timestamp.
C2_AtMostOneOpenCheckout ==
  \A e \in Equip : Cardinality(OpenCheckouts(eq_checkouts, e)) <= 1

\* C3: of two clients that both see E available and both check it out, the call
\* that reaches the store after the other client's open row exists is rejected:
\* it creates no row and its caller is shown an error.
C3_SecondConcurrentCheckoutRejected ==
  [][\A c \in Clients, e \in Equip :
       (/\ handleCheckout(c, e)
        /\ \E d \in Clients \ {c} : \E i \in OpenCheckouts(eq_checkouts, e) :
              user[d] # NoUser /\ eq_checkouts[i].user_id = user[d])
       => (eq_checkouts' = eq_checkouts /\ shown'.type = "error")]_vars

\* C4: a checkOut on equipment whose stored status is not available fails with an
\* error and leaves the status, the checkouts and the deficiencies unchanged.
C4_CheckoutOfUnavailableFails ==
  [][\A c \in Clients, e \in Equip :
       (handleCheckout(c, e) /\ eq_equipment[e] # "available")
       => (shown'.type = "error" /\ UNCHANGED store)]_vars

\* C5: a returnEquipment on a checkout whose return timestamp is already set
\* fails with an error, leaves the checkout row and the status as the first
\* return wrote them and leads to no deficiency insert.
C5_SecondReturnFails ==
  [][\A c \in Clients, e \in Equip, form \in ReturnForms :
       (handleReturn(c, e, form) /\ eq_checkouts[activeCheckout(c, e)].return_date # NULL)
       => (shown'.type = "error" /\ UNCHANGED store /\ ~ ret'[c].active)]_vars

\* C6: while equipment E has a pending major deficiency, no checkOut of E creates
\* a checkout row.
C6_NoCheckoutWhilePendingMajor ==
  [][\A c \in Clients, e \in Equip :
       (handleCheckout(c, e) /\ PendingMajor(eq_deficiencies, e) # {})
       => eq_checkouts' = eq_checkouts]_vars

\* C7: a major deficiency inserted for equipment that has an open checkout sets
\* the status to needs-repair and leaves every checkout row untouched; resolving
\* a pending major deficiency that is the only pending major one of its equipment
\* sets the status to checked-out if an open checkout exists then, else available.
C7_MajorDeficiencyOnCheckedOut ==
  [][/\ \A c \in Clients :
          (/\ handleReturnResume(c)
           /\ Len(eq_deficiencies') = Len(eq_deficiencies) + 1
           /\ ret[c].severity = "major"
           /\ OpenCheckouts(eq_checkouts, ret[c].equipment_id) # {})
          => (/\ eq_equipment'[ret[c].equipment_id] = "needs-repair"
              /\ eq_checkouts' = eq_checkouts)
     /\ \A c \in Clients, d \in DOMAIN eq_deficiencies :
          (/\ resolveDeficiency(c, d)
           /\ eq_deficiencies'[d].status = "resolved"
           /\ PendingMajor(eq_deficiencies, eq_deficiencies[d].equipment_id) = {d})
          => (/\ eq_equipment'[eq_deficiencies[d].equipment_id] =
                   IF OpenCheckouts(eq_checkouts, eq_deficiencies[d].equipment_id) # {}
                     THEN "checked-out" ELSE "available"
              /\ eq_checkouts' = eq_checkouts)]_vars

\* C7 witness: a major deficiency reported while its equipment had an open
\* checkout has just been resolved, and the checkout is still open.
C7_Witness ==
  /\ shown.message = "Deficiency marked as resolved"
  /\ \E d \in DOMAIN eq_deficiencies :
       /\ eq_deficiencies[d].severity = "major"
       /\ eq_deficiencies[d].status = "resolved"
       /\ eq_checkouts[eq_deficiencies[d].checkout_id].return_date = NULL
       /\ eq_equipment[eq_deficiencies[d].equipment_id] = "checked-out"

\* C8: a checkOut that inserts its row for available equipment with no open
\* checkout leaves exactly one open checkout row and status checked-out; a
\* return with condition good of an open checkout sets its return timestamp and
\* condition, sets the status to available and creates no deficiency.
C8_CheckoutThenGoodReturn ==
  [][/\ \A c \in Clients, e \in Equip :
          (/\ handleCheckout(c, e)
           /\ eq_equipment[e] = "available"
           /\ OpenCheckouts(eq_checkouts, e) = {}
           /\ shown'.type = "success")
          => (/\ OpenCheckouts(eq_checkouts', e) = {Len(eq_checkouts) + 1}
              /\ Len(eq_checkouts') = Len(eq_checkouts) + 1
              /\ eq_equipment'[e] = "checked-out"
              /\ eq_deficiencies' = eq_deficiencies)
     /\ \A c \in Clients, e \in Equip, form \in ReturnForms :
          (/\ handleReturn(c, e, form)
           /\ form.condition = "good"
           /\ eq_checkouts[activeCheckout(c, e)].return_date = NULL
           /\ CheckoutUpdateAllowed(auth[c], eq_checkouts[activeCheckout(c, e)]))
          => (/\ eq_checkouts'[activeCheckout(c, e)].return_date # NULL
              /\ eq_checkouts'[activeCheckout(c, e)].return_condition = "good"
              /\ eq_equipment'[e] = "available"
              /\ eq_deficiencies' = eq_deficiencies
              /\ ~ ret'[c].active)]_vars

\* C8 witness: the only checkout of an equipment has just been returned in good
\* condition.
C8_Witness ==
  /\ shown.message = "returned successfully"
  /\ Len(eq_checkouts) = 1
  /\ eq_checkouts[1].return_date # NULL
  /\ eq_checkouts[1].return_condition = "good"
  /\ eq_equipment[eq_checkouts[1].equipment_id] = "available"
  /\ eq_deficiencies = <<>>

\* C9: equipment that is out-of-service stays out-of-service across every step
\* that inserts no checkout and leaves it without a pending major deficiency.
C9_OutOfServiceKept ==
  [][\A e \in Equip :
       (/\ eq_equipment[e] = "out-of-service"
        /\ Len(eq_checkouts') = Len(eq_checkouts)
        /\ PendingMajor(eq_deficiencies', e) = {})
       => eq_equipment'[e] = "out-of-service"]_vars

\* C10: when a return that reports a deficiency resumes after a checkout update
\* that changed no row (the checkout is still open), it creates no deficiency
\* and leaves the status unchanged.
C10_NoDeficiencyWithoutReturn ==
  [][\A c \in Clients :
       (handleReturnResume(c) /\ eq_checkouts[ret[c].checkout_id].return_date = NULL)
       => (eq_deficiencies' = eq_deficiencies /\ eq_equipment' = eq_equipment)]_vars

\* C11: a resolveDeficiency on a deficiency that is already resolved fails with
\* an error and changes neither the deficiency row nor the equipment status.
C11_SecondResolveFails ==
  [][\A c \in Clients, d \in DOMAIN eq_deficiencies :
       (resolveDeficiency(c, d) /\ eq_deficiencies[d].status = "resolved")
       => (shown'.type = "error" /\ UNCHANGED store)]_vars

\* C12: adding equipment attempted by an identity that is not an authenticated
\* chair or admin is rejected with an error shown to the caller and adds no
\* equipment.
C12_UnauthorizedAddRejected ==
  [][\A c \in Clients :
       (handleAddEquipment(c) /\ ~ IsAdminRole(auth[c]))
       => (shown'.type = "error" /\ eq_codes' = eq_codes
           /\ UNCHANGED store)]_vars

\* C13: when the data store rejects the insert of an authorised add-equipment
\* (its code is already taken), the caller is shown an error notification, not
\* a success notification, and the stored records are unchanged.
C13_RejectedAddShowsError ==
  [][\A c \in Clients :
       (/\ handleAddEquipment(c)
        /\ EquipmentInsertAllowed(auth[c])
        /\ generate_equipment_code(eq_codes) \in eq_codes)
       => (shown'.type = "error" /\ eq_codes' = eq_codes
           /\ UNCHANGED store)]_vars

\* C19: the code assigned to newly added equipment is EQ followed by the largest
\* numeric suffix of the existing EQ<digits> codes (0 when there is none) plus
\* one, and it is never an existing code.
C19_GeneratedCodeIsMaxPlusOne ==
  [][\A c \in Clients :
       (handleAddEquipment(c) /\ EquipmentInsertAllowed(auth[c]))
       => LET code == generate_equipment_code(eq_codes)
          IN /\ MatchesEQDigits(code)
             /\ CastInteger(SubstringFrom3(code)) = MaxSuffix(eq_codes) + 1
             /\ code \notin eq_codes]_vars

\* C14: overdueCheckouts returns exactly the checkouts with a null return
\* timestamp and a non-null expected-return date whose day is strictly before the
\* current day.
C14_OverdueExactlyPastDays ==
  fn = "getOverdueCheckouts"
  => {result[i].id : i \in DOMAIN result} =
       {i \in DOMAIN arg : /\ arg[i].return_date = NULL
                            /\ arg[i].expected_return # NULL
                            /\ arg[i].expected_return < clock \div TicksPerDay}

\* C15: every entry of the overdueCheckouts result carries days-overdue = current
\* day minus expected-return day, and the result is ordered by days-overdue
\* descending with equal entries in their input order.
C15_OverdueDaysAndOrder ==
  fn = "getOverdueCheckouts"
  => /\ \A i \in DOMAIN result :
          result[i].daysOverdue = (clock \div TicksPerDay) - result[i].expected_return
     /\ \A i, j \in DOMAIN result :
          i < j => \/ result[i].daysOverdue > result[j].daysOverdue
                   \/ /\ result[i].daysOverdue = result[j].daysOverdue
                      /\ result[i].id < result[j].id

\* C15 witness: a result of three entries, two of them equally overdue.
C15_Witness ==
  /\ fn = "getOverdueCheckouts"
  /\ Len(result) = 3
  /\ result[1].daysOverdue > result[2].daysOverdue
  /\ result[2].daysOverdue = result[3].daysOverdue

\* C16: a call of overdueCheckouts leaves its input list as it was, a second
\* call with the same list and time returns the same sequence, and the function
\* applied to its own result returns that result.
C16_OverdueIdempotent ==
  [][callOverdueCheckouts
     => /\ arg' = arg
        /\ getOverdueCheckouts(arg', clock') = result'
        /\ getOverdueCheckouts(result', clock') = result']_vars

\* C16 witness: a call has returned two equally overdue entries after a more
\* overdue one, from a list that also held a row that is not overdue.
C16_Witness ==
  /\ fn = "getOverdueCheckouts"
  /\ Len(arg) = 3
  /\ Len(result) = 2
  /\ result[1].daysOverdue = result[2].daysOverdue

\* C17: maintenanceDue includes an item if and only if its category has an
\* interval (Grounds 90, Tools 180, Cleaning 90, Electrical 365, Shop 180, Range
\* 90; Events and Other have none) and its last-maintenance date is null or
\* last-maintenance + interval is at most 14 days after the current day.
C17_MaintenanceDueMembership ==
  fn = "getMaintenanceDue"
  => LET days == [Grounds |-> 90, Tools |-> 180, Cleaning |-> 90, Electrical |-> 365,
                  Shop |-> 180, Range |-> 90]
         tracked == {"Grounds", "Tools", "Cleaning", "Electrical", "Shop", "Range"}
     IN {result[i].id : i \in DOMAIN result} =
          {i \in DOMAIN arg :
             /\ arg[i].category \in tracked
             /\ \/ arg[i].last_maintenance = NULL
                \/ arg[i].last_maintenance + days[arg[i].category]
                     <= (clock \div TicksPerDay) + 14}

\* C17 witness: a call on a list holding an exempt item, an item due in 14 days
\* and an item due in 15 days returned only the second.
C17_Witness ==
  /\ fn = "getMaintenanceDue"
  /\ Len(arg) = 3
  /\ arg[1].category = "Events"
  /\ arg[2].category = "Tools" /\ arg[2].last_maintenance = 400 + 14 - 180
  /\ arg[3].category = "Electrical" /\ arg[3].last_maintenance = 400 + 15 - 365
  /\ Len(result) = 1
  /\ result[1].id = 2

\* C18: in the maintenanceDue result no item with a last-maintenance date
\* precedes a never-maintained item, and the items with a last-maintenance date
\* are in descending order of days past due (current day minus due day).
C18_MaintenanceDueOrder ==
  fn = "getMaintenanceDue"
  => LET pastDue(r) == (clock \div TicksPerDay)
                         - (r.last_maintenance + MAINTENANCE_INTERVALS[r.category])
     IN \A i, j \in DOMAIN result :
          i < j => /\ ~ (result[i].last_maintenance # NULL
                          /\ result[j].last_maintenance = NULL)
                   /\ (result[i].last_maintenance # NULL
                          /\ result[j].last_maintenance # NULL)
                       => pastDue(result[i]) >= pastDue(result[j])

\* C18 witness: a not yet due item, a never-maintained item and an overdue item,
\* given in that order, were returned as never-maintained, overdue, not yet due.
C18_Witness ==
  /\ fn = "getMaintenanceDue"
  /\ Len(result) = 3
  /\ result[1].id = 2 /\ result[1].neverMaintained
  /\ result[2].id = 3 /\ result[2].daysPastDue = 1
  /\ result[3].id = 1 /\ result[3].daysPastDue = 0 - 14

\* C20: read back as delimited text (fields split at commas and rows at
\* newlines outside quotes, a doubled quote inside quotes read as one quote), the
\* exportToCSV output is the header row followed by one row per record in input
\* order, null and undefined read back as empty fields; and a field is emitted
\* in double quotes if and only if its text has a comma, a quote or a newline.
C20_CsvReadsBackAsRecords ==
  fn = "exportToCSV"
  => LET RECURSIVE Read(_, _, _, _, _)
         Read(i, rows, row, field, quoted) ==
           IF i > Len(result) THEN Append(rows, Append(row, field))
           ELSE LET ch == result[i]
                IN IF quoted
                     THEN IF ch = "\""
                            THEN IF i < Len(result) /\ result[i + 1] = "\""
                                   THEN Read(i + 2, rows, row, Append(field, "\""), TRUE)
                                   ELSE Read(i + 1, rows, row, field, FALSE)
                            ELSE Read(i + 1, rows, row, Append(field, ch), TRUE)
                     ELSE IF ch = "\"" THEN Read(i + 1, rows, row, field, TRUE)
                     ELSE IF ch = "," THEN Read(i + 1, rows, Append(row, field), <<>>, FALSE)
                     ELSE IF ch = "\n"
                            THEN Read(i + 1, Append(rows, Append(row, field)), <<>>, <<>>,
                                      FALSE)
                     ELSE Read(i + 1, rows, row, Append(field, ch), FALSE)
         text(v) == IF v.kind = "string" THEN v.text ELSE <<>>
         special(t) == \E k \in DOMAIN t : t[k] \in {",", "\"", "\n"}
         wrapped(t) == Len(t) >= 2 /\ t[1] = "\"" /\ t[Len(t)] = "\""
     IN /\ Read(1, <<>>, <<>>, <<>>, FALSE) =
             << <<Columns[1].header, Columns[2].header>> >>
             \o [r \in DOMAIN arg |-> <<text(arg[r].equipment_code), text(arg[r].notes)>>]
        /\ \A r \in DOMAIN arg : \A v \in {arg[r].equipment_code, arg[r].notes} :
             wrapped(csvField(v)) <=> special(text(v))

\* C20 witness: two records were exported, the first with a field holding a
\* quote and a null field, the second with a newline and a comma.
C20_Witness ==
  /\ fn = "exportToCSV"
  /\ Len(arg) = 2
  /\ arg[1].equipment_code = Str(<<"a", "\"", "b">>) /\ arg[1].notes = Null
  /\ arg[2].equipment_code = Str(<<"\n">>) /\ arg[2].notes = Str(<<",">>)
  /\ Len(result) > 10

\* C21: exporting N equipment records and reading the text back with the same
\* quoting rules (rows end at a newline outside quotes, fields at a comma
\* outside quotes, a doubled quote inside quotes is one quote) gives the header
\* row and then exactly N records, the fields of record r being the texts of
\* the values exported for record r (null exported as the empty text, a null
\* last maintenance as Never).
C21_EquipmentCsvRoundTrip ==
  fn = "exportEquipmentList"
  => LET t == result
         \* position i lies inside quotes: an odd number of quotes precede it
         quoted == [i \in DOMAIN t |->
                      Cardinality({j \in 1..(i - 1) : t[j] = "\""}) % 2 = 1]
         seps == {i \in DOMAIN t : t[i] \in {",", "\n"} /\ ~quoted[i]}
         nfields == Cardinality(seps) + 1
         \* position of the k-th separator; 0 before the first, Len + 1 after the last
         sep == [k \in 0..nfields |->
                   IF k = 0 THEN 0
                   ELSE IF k = nfields THEN Len(t) + 1
                   ELSE CHOOSE i \in seps : Cardinality({j \in seps : j < i}) = k - 1]
         RECURSIVE unquote(_, _)
         unquote(f, q) ==
           IF f = <<>> THEN <<>>
           ELSE IF q /\ Head(f) = "\"" /\ Len(f) > 1 /\ f[2] = "\""
             THEN <<"\"">> \o unquote(Tail(Tail(f)), TRUE)
           ELSE IF Head(f) = "\"" THEN unquote(Tail(f), ~q)
           ELSE <<Head(f)>> \o unquote(Tail(f), q)
         field == [k \in 1..nfields |->
                     unquote(SubSeq(t, sep[k - 1] + 1, sep[k] - 1), FALSE)]
         ncols == Len(EquipmentColumns)
         exported(r, a) ==
           LET v == IF a = "last_maintenance" /\ r.last_maintenance = Null
                      THEN Str(<<"N", "e", "v", "e", "r">>) ELSE r[a]
           IN IF v = Null THEN <<>> ELSE v.text
     IN \* N + 1 rows of seven fields: every seventh separator is a newline
        /\ Cardinality({i \in seps : t[i] = "\n"}) = Len(arg)
        /\ nfields = ncols * (Len(arg) + 1)
        /\ \A k \in 1..(nfields - 1) : (t[sep[k]] = "\n") <=> (k % ncols = 0)
        /\ \A j \in 1..ncols : field[j] = EquipmentColumns[j].header
        /\ \A r \in DOMAIN arg :
             [j \in 1..ncols |-> field[ncols * r + j]] =
               <<exported(arg[r], "equipment_code"), exported(arg[r], "name"),
                 exported(arg[r], "category"), exported(arg[r], "location"),
                 exported(arg[r], "status"), exported(arg[r], "last_maintenance"),
                 exported(arg[r], "notes")>>

\* C21 witness: two equipment records were exported whose names, location and
\* notes hold a comma, a quote and a newline, one never maintained.
C21_Witness ==
  /\ fn = "exportEquipmentList"
  /\ Len(arg) = 2
  /\ arg[1].name = Str(<<"a", "\"", "b">>) /\ arg[1].notes = Str(<<"\n", ",">>)
  /\ arg[1].location = Str(<<",", "\"">>) /\ arg[1].last_maintenance = Null
  /\ arg[2].name = Str(<<"\n">>) /\ arg[2].notes = Null
  /\ Len(result) > 60

\* C22: a return marked with a major deficiency never exposes the equipment as
\* available: while a handleReturn that reports a major deficiency is between
\* its checkout update and its deficiency insert, the status of the equipment
\* is not available.
C22_MajorReturnNeverAvailable ==
  \A c \in Clients :
    (ret[c].active /\ ret[c].severity = "major")
      => eq_equipment[ret[c].equipment_id] # "available"

\* C23: a resolveDeficiency on an equipment that still has another pending
\* major deficiency does not change the equipment status: an equipment in
\* needs-repair stays in needs-repair.
C23_ResolveKeepsStatusWhileOtherMajor ==
  [][\A c \in Clients, d \in 1..MaxPending :
       (/\ resolveDeficiency(c, d)
        /\ \E j \in PendingMajor(eq_deficiencies, eq_deficiencies[d].equipment_id) : j # d)
         => eq_equipment' = eq_equipment]_vars

\* C23 witness: the first of two major deficiencies has been resolved by the
\* chair, the second is still pending and the equipment is in needs-repair.
C23_Witness ==
  /\ Len(eq_deficiencies) = 2
  /\ eq_deficiencies[1].severity = "major" /\ eq_deficiencies[1].status = "resolved"
  /\ eq_deficiencies[2].severity = "major" /\ eq_deficiencies[2].status = "pending"
  /\ eq_equipment["e1"] = "needs-repair"
  /\ shown = Notify("c2", "Deficiency marked as resolved", "success")

\* C24: a step that inserts a deficiency record with severity minor leaves the
\* status of every equipment and every checkout record unchanged.
C24_MinorDeficiencyInsertFrame ==
  [][(/\ Len(eq_deficiencies') = Len(eq_deficiencies) + 1
      /\ eq_deficiencies'[Len(eq_deficiencies')].severity = "minor")
       => (eq_equipment' = eq_equipment /\ eq_checkouts' = eq_checkouts)]_vars

\* C24 witness: a return has inserted a minor deficiency for a returned
\* checkout, and the equipment is available.
C24_Witness ==
  /\ Len(eq_deficiencies) = 1
  /\ eq_deficiencies[1].severity = "minor" /\ eq_deficiencies[1].status = "pending"
  /\ eq_checkouts[eq_deficiencies[1].checkout_id].return_date # NULL
  /\ eq_equipment["e1"] = "available"
  /\ shown.message = "returned with deficiency reported"

\* C25: in every reachable state an equipment with status checked-out has at
\* least one checkout row whose return timestamp is null.
C25_CheckedOutHasOpenCheckout ==
  \A e \in Equip :
    eq_equipment[e] = "checked-out" => OpenCheckouts(eq_checkouts, e) # {}

\* C25 witness: the equipment was checked out, returned and checked out again:
\* it is checked-out with the first row closed and the second open.
C25_Witness ==
  /\ eq_equipment["e1"] = "checked-out"
  /\ Len(eq_checkouts) = 2
  /\ eq_checkouts[1].return_date # NULL
  /\ eq_checkouts[2].return_date = NULL

\* C26: in every reachable state each deficiency record that references a
\* checkout references a checkout of the same equipment whose return timestamp
\* is set and whose return condition is deficiency.
C26_DeficiencyReferencesReturnedCheckout ==
  \A d \in DOMAIN eq_deficiencies :
    eq_deficiencies[d].checkout_id # NULL
      => /\ eq_deficiencies[d].checkout_id \in DOMAIN eq_checkouts
         /\ LET ck == eq_checkouts[eq_deficiencies[d].checkout_id]
            IN /\ ck.equipment_id = eq_deficiencies[d].equipment_id
               /\ ck.return_date # NULL
               /\ ck.return_condition = "deficiency"

\* C27: a session opened through member login never obtains chair or admin
\* capabilities: after every handleMemberLogin, isAdmin is false in that session,
\* so the Alerts and Admin tabs, Mark Resolved, Add Equipment and the CSV
\* exports are not rendered.
C27_MemberLoginIsNeverAdmin ==
  [][\A c \in Clients : handleMemberLogin(c) => ~ isAdmin(c)']_vars

\* C28: every notification stays visible until 4 seconds after it was shown
\* unless a newer notification replaces it: whenever the banner is cleared, the
\* notification it held was shown at least 4 seconds before, so the timer of an
\* earlier showNotification never clears a later notification.
C28_NotificationVisibleFourSeconds ==
  [][(notification # Hidden /\ notification' = Hidden)
       => clock >= notification.shownAt + NotificationSeconds]_vars

\* C29: the maintenance-schedule export and the maintenanceDue list agree at
\* every time of day: an exported item has status OVERDUE or DUE SOON if and
\* only if getMaintenanceDue, evaluated on the same list at the same instant,
\* returns it, and status OK if and only if it does not.
C29_ExportAgreesWithMaintenanceDue ==
  fn = "exportMaintenanceSchedule"
  => LET due == getMaintenanceDue(arg, clock)
         inDue(id) == \E k \in DOMAIN due : due[k].id = id
     IN \A i \in DOMAIN result :
          /\ result[i].Status \in {"OVERDUE", "DUE SOON"} <=> inDue(result[i].id)
          /\ result[i].Status = "OK" <=> ~ inDue(result[i].id)

\* C30: a Mark Maintained Today that updates the row of equipment E leaves the
\* status of E, the other rows and every checkout and deficiency record
\* unchanged; and after a refresh of the equipment list on that day, an
\* item whose last maintenance is the date such an update wrote is not in the
\* maintenanceDue result.
C30_MaintainedTodayNotDue ==
  [][/\ \A c \in Clients, id \in 1..MaxMaintained :
          (handleUpdateMaintenance(c, id) /\ eq_maintenance' # eq_maintenance)
            => /\ UNCHANGED store
               /\ \A i \in DOMAIN eq_maintenance :
                    /\ eq_maintenance'[i].status = eq_maintenance[i].status
                    /\ eq_maintenance'[i].category = eq_maintenance[i].category
                    /\ i # id => eq_maintenance'[i] = eq_maintenance[i]
     /\ \A c \in Clients :
          fetchEquipment(c)
            => \A i \in DOMAIN arg' :
                 arg'[i].last_maintenance \in toISODate(clock)
                   => ~ \E k \in DOMAIN result' : result'[k].id = i]_vars

\* C30 witness: after Mark Maintained Today on the first of two equipment
\* items that were both due and a refresh, the list holds the new date for the
\* first item (in needs-repair before and after) and only the second is due.
C30_Witness ==
  /\ Len(arg) = 2
  /\ arg[1].last_maintenance \in toISODate(clock)
  /\ eq_maintenance[1].status = "needs-repair"
  /\ arg[2].last_maintenance = NULL
  /\ Len(result) = 1 /\ result[1].id = 2
  /\ fn = "getMaintenanceDue"

====
